---- MODULE Spec2Model ----
(***************************************************************************)
(* pngme: the PNG chunk codec (chunk_type.rs, chunk.rs).                   *)
(*                                                                         *)
(* Bytes are naturals 0..255 and byte strings are sequences of bytes.      *)
(* A u32 is the record [hi, lo] of its two 16-bit halves, so that every    *)
(* value of the type is representable and the conversions to and from      *)
(* big-endian bytes are real arithmetic.                                   *)
(*                                                                         *)
(* The state is that of a caller exercising the library: the last          *)
(* Result<ChunkType>, the last Result<Chunk>, the buffer last handed to    *)
(* Chunk::try_from, the last as_bytes() and data_as_string() results.      *)
(* A result whose tag is "panic" is an unwrap()/expect() that aborted.     *)
(***************************************************************************)
EXTENDS Integers, Sequences, FiniteSets, TLC

\* ------------------------------------------------------------------ bounds
MaxData == 2
MaxStr == 5
MaxCalls == 2

\* Chunk::try_from's minimum input length
MinLen == 12

\* byte values the inputs are drawn from
\* 'R' (upper), 'u' (lower), '1' (ASCII, not a letter), 0x80 (not ASCII)
TypeBytes == {82, 117, 49, 128}
\* 'R', 'u', '1', and the two bytes of U+00E9
StrBytes == {82, 117, 49, 195, 169}
\* 'A', and the two bytes of U+00E9 (valid only as the pair 195, 169)
DataBytes == {65, 195, 169}
ShortBytes == {0, 82}

SeqsUpTo(S, n) == UNION {[1..k -> S] : k \in 0..n}

\* ------------------------------------------------------- integer helpers
RECURSIVE BitXor(_, _)
BitXor(a, b) ==
    IF a = 0 THEN b
    ELSE IF b = 0 THEN a
    ELSE ((a + b) % 2) + 2 * BitXor(a \div 2, b \div 2)

RECURSIVE BitAnd(_, _)
BitAnd(a, b) ==
    IF a = 0 \/ b = 0 THEN 0
    ELSE ((a % 2) * (b % 2)) + 2 * BitAnd(a \div 2, b \div 2)

RECURSIVE Shl(_, _)
Shl(a, n) == IF n = 0 THEN a ELSE Shl((2 * a) % 256, n - 1)

U32Xor(x, y) == [hi |-> BitXor(x.hi, y.hi), lo |-> BitXor(x.lo, y.lo)]
U32Not(x) == [hi |-> 65535 - x.hi, lo |-> 65535 - x.lo]
U32Shr1(x) == [hi |-> x.hi \div 2, lo |-> (x.lo \div 2) + (x.hi % 2) * 32768]
U32Shr8(x) == [hi |-> x.hi \div 256, lo |-> (x.lo \div 256) + (x.hi % 256) * 256]

\* `n as u32` for a usize n
as_u32(n) == [hi |-> (n \div 65536) % 65536, lo |-> n % 65536]

to_be_bytes(x) == <<x.hi \div 256, x.hi % 256, x.lo \div 256, x.lo % 256>>
from_be_bytes(b) == [hi |-> b[1] * 256 + b[2], lo |-> b[3] * 256 + b[4]]

\* ------------------------------------------------------------ CRC-32/IEEE
IEEE == [hi |-> 60856, lo |-> 33568]

RECURSIVE make_table_entry(_, _)
make_table_entry(v, k) ==
    IF k = 0 THEN v
    ELSE make_table_entry(IF v.lo % 2 = 1 THEN U32Xor(U32Shr1(v), IEEE)
                          ELSE U32Shr1(v), k - 1)

IEEE_TABLE == [i \in 0..255 |-> make_table_entry([hi |-> 0, lo |-> i], 8)]

RECURSIVE crc_update(_, _, _)
crc_update(acc, bytes, i) ==
    IF i > Len(bytes) THEN acc
    ELSE crc_update(U32Xor(U32Shr8(acc), IEEE_TABLE[BitXor(acc.lo % 256, bytes[i])]),
                    bytes, i + 1)

checksum_ieee(bytes) == U32Not(crc_update(U32Not([hi |-> 0, lo |-> 0]), bytes, 1))

\* ------------------------------------------------------------------ UTF-8
Cont(b) == 128 <= b /\ b <= 191

RECURSIVE from_utf8_ok(_, _)
from_utf8_ok(s, i) ==
    IF i > Len(s) THEN TRUE
    ELSE LET b == s[i]
             n == Len(s) - i
         IN  IF b < 128 THEN from_utf8_ok(s, i + 1)
             ELSE IF 194 <= b /\ b <= 223
                  THEN n >= 1 /\ Cont(s[i + 1]) /\ from_utf8_ok(s, i + 2)
             ELSE IF 224 <= b /\ b <= 239
                  THEN /\ n >= 2
                       /\ Cont(s[i + 1]) /\ Cont(s[i + 2])
                       /\ (b = 224 => s[i + 1] >= 160)
                       /\ (b = 237 => s[i + 1] <= 159)
                       /\ from_utf8_ok(s, i + 3)
             ELSE IF 240 <= b /\ b <= 244
                  THEN /\ n >= 3
                       /\ Cont(s[i + 1]) /\ Cont(s[i + 2]) /\ Cont(s[i + 3])
                       /\ (b = 240 => s[i + 1] >= 144)
                       /\ (b = 244 => s[i + 1] <= 143)
                       /\ from_utf8_ok(s, i + 4)
             ELSE FALSE

is_utf8(s) == from_utf8_ok(s, 1)

\* -------------------------------------------------------------- ChunkType
is_ascii(b) == b <= 127
is_ascii_alphabetic(b) == (65 <= b /\ b <= 90) \/ (97 <= b /\ b <= 122)

NoType == [tag |-> "none", bytes |-> <<>>, msg |-> ""]

from_str(s) ==
    IF Len(s) # 4
    THEN [tag |-> "panic", bytes |-> <<>>, msg |-> "str with length 4"]
    ELSE IF ~(\A i \in 1..4 : is_ascii_alphabetic(s[i]))
    THEN [tag |-> "err", bytes |-> <<>>, msg |-> "ASCII alphabets only bish"]
    ELSE [tag |-> "ok", bytes |-> s, msg |-> ""]

ChunkType_try_from(value4) ==
    IF \A i \in 1..4 : is_ascii(value4[i])
    THEN [tag |-> "ok", bytes |-> value4, msg |-> ""]
    ELSE [tag |-> "err", bytes |-> <<>>, msg |-> "Invalid ascii byte found"]

is_critical(t) == BitAnd(t.bytes[1], Shl(1, 5)) = 0
is_public(t) == BitAnd(t.bytes[2], Shl(1, 5)) = 0
is_reserved_bit_valid(t) == BitAnd(t.bytes[3], Shl(1, 5)) = 0
is_safe_to_copy_inverted(t) == BitAnd(t.bytes[4], Shl(1, 5)) = 0
is_safe_to_copy(t) == BitAnd(t.bytes[4], Shl(1, 5)) # 0
is_valid(t) == is_reserved_bit_valid(t)

\* ------------------------------------------------------------------ Chunk
NoChunk == [tag |-> "none", length |-> as_u32(0), chunk_type |-> [bytes |-> <<>>],
            data |-> <<>>, crc |-> as_u32(0), msg |-> ""]

ChunkErr(tag, msg) == [NoChunk EXCEPT !.tag = tag, !.msg = msg]

\* value.len() < 12
too_short_off_by_one(value) == Len(value) < MinLen - 1
too_short(value) == Len(value) < MinLen

\* length != data_bytes.len() as u32
length_differs_u16(length, data_bytes) == length.lo # as_u32(Len(data_bytes)).lo
length_differs_never(length, data_bytes) == FALSE
length_differs(length, data_bytes) == length # as_u32(Len(data_bytes))

\* checksum_ieee(&to_be_checksum) != crc
checksum_differs_never(to_be_checksum, crc) == FALSE
checksum_differs(to_be_checksum, crc) == checksum_ieee(to_be_checksum) # crc

\* split_at(mid) panics when mid exceeds the slice's length, and so does the
\* usize subtraction rest.len() - 4 when it underflows
Chunk_try_from(value) ==
    IF too_short(value)
    THEN ChunkErr("err", "Length must be at least 12")
    ELSE IF Len(value) < 4 \/ Len(value) - 4 < 4 \/ Len(value) - 8 < 4
    THEN ChunkErr("panic", "split_at")
    ELSE LET length_bytes == SubSeq(value, 1, 4)
             rest == SubSeq(value, 5, Len(value))
             length == from_be_bytes(length_bytes)
             chunk_type_bytes == SubSeq(rest, 1, 4)
             rest2 == SubSeq(rest, 5, Len(rest))
             chunk_type == ChunkType_try_from(chunk_type_bytes)
             data_bytes == SubSeq(rest2, 1, Len(rest2) - 4)
             crc_bytes == SubSeq(rest2, Len(rest2) - 3, Len(rest2))
             crc == from_be_bytes(crc_bytes)
             to_be_checksum == chunk_type_bytes \o data_bytes
         IN  IF chunk_type.tag # "ok"
             THEN ChunkErr("panic", chunk_type.msg)
             ELSE IF length_differs(length, data_bytes)
             THEN ChunkErr("err", "Invalid chunk length")
             ELSE IF checksum_differs(to_be_checksum, crc)
             THEN ChunkErr("err", "Invalid chunk checksum")
             ELSE [tag |-> "ok", length |-> length,
                   chunk_type |-> [bytes |-> chunk_type.bytes],
                   data |-> data_bytes, crc |-> crc, msg |-> ""]

new_value_crc_of_data(chunk_type, data) ==
    to_be_bytes(as_u32(Len(data))) \o chunk_type.bytes \o data
        \o to_be_bytes(checksum_ieee(data))

\* the buffer Chunk::new builds and parses
new_value(chunk_type, data) ==
    LET chunk_type_and_data_bytes == chunk_type.bytes \o data
        crc == checksum_ieee(chunk_type_and_data_bytes)
        length == as_u32(Len(data))
    IN  to_be_bytes(length) \o chunk_type_and_data_bytes \o to_be_bytes(crc)

Chunk_new(chunk_type, data) ==
    LET r == Chunk_try_from(new_value(chunk_type, data))
    IN  IF r.tag = "ok" THEN r ELSE ChunkErr("panic", r.msg)

as_bytes_crc_first(self) ==
    to_be_bytes(self.length) \o to_be_bytes(self.crc) \o self.chunk_type.bytes
        \o self.data

as_bytes(self) ==
    to_be_bytes(self.length) \o self.chunk_type.bytes \o self.data
        \o to_be_bytes(self.crc)

NoText == [tag |-> "none", s |-> <<>>]

data_as_string(self) ==
    IF is_utf8(self.data) THEN [tag |-> "ok", s |-> self.data]
    ELSE [tag |-> "panic", s |-> <<>>]

\* a test's chunk_data: a buffer assembled from its four parts
chunk_data(data_length, chunk_type, message_bytes, crc) ==
    to_be_bytes(data_length) \o chunk_type \o message_bytes \o to_be_bytes(crc)

\* ------------------------------------------------------------------ state
\* One behaviour is one run of a caller: a first call on fresh inputs (op =
\* "init"), then calls on the values that call produced.
VARIABLES
    op,          \* the operation that ran last
    arg,         \* the input of the last ChunkType constructor
    chunk_type,  \* the last Result<ChunkType> ("moved" once a Chunk owns it)
    orig,        \* the t, d and Chunk of the last Chunk::new, while in use
    base,        \* the accepted buffer that value was derived from, if any
    value,       \* the buffer last handed to Chunk::try_from
    chunk,       \* the last Result<Chunk>
    bytes_out,   \* the last as_bytes() of chunk
    calls,       \* as_bytes() calls on chunk so far
    text         \* the last data_as_string() of chunk

vars == <<op, arg, chunk_type, orig, base, value, chunk, bytes_out, calls, text>>

NoOrig == [t |-> <<>>, d |-> <<>>, chunk |-> NoChunk]
NoBytes == [set |-> FALSE, bytes |-> <<>>]

Init ==
    /\ op = "init"
    /\ arg = <<>>
    /\ chunk_type = NoType
    /\ orig = NoOrig
    /\ base = <<>>
    /\ value = <<>>
    /\ chunk = NoChunk
    /\ bytes_out = NoBytes
    /\ calls = 0
    /\ text = NoText

NoChunkState ==
    /\ orig' = NoOrig
    /\ base' = <<>>
    /\ value' = <<>>
    /\ chunk' = NoChunk
    /\ bytes_out' = NoBytes
    /\ calls' = 0
    /\ text' = NoText

\* ChunkType::from_str(s)
FromStr ==
    /\ op = "init"
    /\ \E s \in SeqsUpTo(StrBytes, MaxStr) :
        /\ is_utf8(s)
        /\ op' = "from_str"
        /\ arg' = s
        /\ chunk_type' = from_str(s)
        /\ NoChunkState

\* ChunkType::try_from(value4)
TypeTryFrom ==
    /\ op = "init"
    /\ \E value4 \in [1..4 -> TypeBytes] :
        /\ op' = "type_try_from"
        /\ arg' = value4
        /\ chunk_type' = ChunkType_try_from(value4)
        /\ NoChunkState

\* Chunk::new(chunk_type, data), which takes ownership of chunk_type
New ==
    /\ chunk_type.tag = "ok"
    /\ \E data \in SeqsUpTo(DataBytes, MaxData) :
        /\ op' = "new"
        /\ value' = new_value(chunk_type, data)
        /\ chunk' = Chunk_new(chunk_type, data)
        /\ orig' = [t |-> chunk_type.bytes, d |-> data, chunk |-> chunk']
        /\ chunk_type' = [NoType EXCEPT !.tag = "moved"]
        /\ arg' = <<>>
        /\ base' = <<>>
        /\ bytes_out' = NoBytes
        /\ calls' = 0
        /\ text' = NoText

\* chunk.as_bytes()
AsBytes ==
    /\ chunk.tag = "ok"
    /\ calls < MaxCalls
    /\ op' = "as_bytes"
    /\ bytes_out' = [set |-> TRUE, bytes |-> as_bytes(chunk)]
    /\ calls' = calls + 1
    /\ UNCHANGED <<arg, chunk_type, orig, base, value, chunk, text>>

\* chunk.data_as_string()
DataAsString ==
    /\ chunk.tag = "ok"
    /\ op' = "data_as_string"
    /\ text' = data_as_string(chunk)
    /\ UNCHANGED <<arg, chunk_type, orig, base, value, chunk, bytes_out, calls>>

\* Chunk::try_from(v), v derived from the accepted buffer b (<<>> if from none)
TryFrom(v, b, o, how) ==
    /\ op' = how
    /\ value' = v
    /\ base' = b
    /\ orig' = o
    /\ chunk' = Chunk_try_from(v)
    /\ bytes_out' = NoBytes
    /\ calls' = 0
    /\ text' = NoText
    /\ arg' = <<>>
    /\ chunk_type' = NoType

\* Chunk::try_from(chunk.as_bytes())
Reparse ==
    /\ bytes_out.set
    /\ TryFrom(bytes_out.bytes, <<>>, orig, "reparse")

\* Chunk::try_from of a buffer shorter than the minimum
ParseShort ==
    /\ op = "init"
    /\ \E v \in SeqsUpTo(ShortBytes, MinLen - 1) : TryFrom(v, <<>>, NoOrig, "short")

\* Chunk::try_from of a buffer assembled with the right length and checksum
ParseFramed ==
    /\ op = "init"
    /\ \E t \in [1..4 -> TypeBytes], d \in SeqsUpTo(DataBytes, MaxData) :
        TryFrom(chunk_data(as_u32(Len(d)), t, d, checksum_ieee(t \o d)),
                <<>>, NoOrig, "framed")

\* value is a buffer Chunk::try_from has just accepted
Accepted == op \in {"new", "framed"} /\ chunk.tag = "ok"

\* Chunk::try_from of an accepted buffer with one type or data byte changed
ParseByteChanged ==
    /\ Accepted
    /\ \E i \in 5..(Len(value) - 4), b \in TypeBytes \cup DataBytes :
        /\ b # value[i]
        /\ TryFrom([value EXCEPT ![i] = b], value, NoOrig, "byte_changed")

\* length fields: small counts, and values with a set byte in each position
LengthFields ==
    {as_u32(n) : n \in 0..(MaxData + 1)}
        \cup {from_be_bytes(<<1, 0, 0, 0>>), from_be_bytes(<<0, 1, 0, 1>>),
              from_be_bytes(<<0, 0, 1, 0>>), from_be_bytes(<<255, 255, 255, 255>>)}

\* Chunk::try_from of an accepted buffer with its length field replaced
ParseLengthChanged ==
    /\ Accepted
    /\ \E l \in LengthFields :
        /\ l # as_u32(Len(value) - MinLen)
        /\ TryFrom(to_be_bytes(l) \o SubSeq(value, 5, Len(value)), value,
                   NoOrig, "length_changed")

Next ==
    \/ FromStr
    \/ TypeTryFrom
    \/ New
    \/ AsBytes
    \/ DataAsString
    \/ Reparse
    \/ ParseShort
    \/ ParseFramed
    \/ ParseByteChanged
    \/ ParseLengthChanged

Spec == Init /\ [][Next]_vars

\* ----------------------------------------------------------------- claims
Bit5Clear(b) == (b \div 32) % 2 = 0
Ascii4(v) == \A i \in 5..8 : v[i] < 128
ChecksumError == chunk.tag = "err" /\ chunk.msg = "Invalid chunk checksum"
LengthError == chunk.tag = "err" /\ chunk.msg = "Invalid chunk length"
TooShortError == chunk.tag = "err" /\ chunk.msg = "Length must be at least 12"

\* base was accepted, and value is base with exactly one byte of its type or
\* data region changed
OneByteChanged ==
    /\ base # <<>>
    /\ Len(value) = Len(base)
    /\ \E i \in 5..(Len(base) - 4) :
        /\ value[i] # base[i]
        /\ \A j \in 1..Len(base) : j # i => value[j] = base[j]

\* base was accepted, and value is base with only its length field changed
OnlyLengthChanged ==
    /\ base # <<>>
    /\ Len(value) = Len(base)
    /\ SubSeq(value, 1, 4) # SubSeq(base, 1, 4)
    /\ SubSeq(value, 5, Len(value)) = SubSeq(base, 5, Len(base))

\* C1: Chunk::new(t, d) succeeds for every valid type t and payload d, and
\* parsing its as_bytes() succeeds and yields a chunk with the length, type,
\* data and crc of the original (type t, data d).
RoundTrip ==
    /\ op = "new" => chunk.tag = "ok"
    /\ (op = "reparse" /\ orig.chunk.tag = "ok") =>
        /\ chunk.tag = "ok"
        /\ chunk.length = orig.chunk.length
        /\ chunk.chunk_type = orig.chunk.chunk_type
        /\ chunk.data = orig.chunk.data
        /\ chunk.crc = orig.chunk.crc
        /\ chunk.chunk_type.bytes = orig.t
        /\ chunk.data = orig.d

RoundTripWitness ==
    /\ op = "reparse"
    /\ orig.chunk.tag = "ok"
    /\ chunk.tag = "ok"
    /\ Len(orig.d) >= 2
    /\ chunk.data = orig.d

\* C2: every Chunk produced by Chunk::new or Chunk::try_from has
\* crc = CRC32(type bytes ++ data) and length = the number of data bytes.
ChunkInvariant ==
    chunk.tag = "ok" =>
        /\ chunk.crc = checksum_ieee(chunk.chunk_type.bytes \o chunk.data)
        /\ chunk.length.hi = 0
        /\ chunk.length.lo = Len(chunk.data)

ChunkInvariantWitness ==
    /\ op = "framed"
    /\ chunk.tag = "ok"
    /\ Len(chunk.data) >= 1

LengthInvariant == OnlyLengthChanged => LengthError

LengthInvariantWitness ==
    /\ OnlyLengthChanged
    /\ op = "length_changed"
    /\ SubSeq(value, 1, 4) = <<0, 1, 0, 1>>
    /\ Len(value) = MinLen + 1
    /\ LengthError

\* C5: Chunk::try_from of a buffer of 0 to 11 bytes returns the too-short
\* error, whatever the bytes are.
MinimumLength ==
    (chunk.tag # "none" /\ Len(value) <= 11) => TooShortError

MinimumLengthWitness ==
    /\ op = "short"
    /\ Len(value) = 11
    /\ value[5] = 82
    /\ TooShortError

\* C6: for a buffer of at least 12 bytes with the right length field and
\* checksum, Chunk::try_from succeeds iff its four type bytes are ASCII, and
\* returns an error value otherwise.
TypeFieldValidation ==
    op = "framed" =>
        IF Ascii4(value) THEN chunk.tag = "ok" ELSE chunk.tag = "err"

\* C7: data_as_string() returns the payload as text when it is valid UTF-8
\* and an error value when it is not.
DataAsStringResult ==
    op = "data_as_string" =>
        IF is_utf8(chunk.data)
        THEN text.tag = "ok" /\ text.s = chunk.data
        ELSE text.tag = "err"

\* C8: ChunkType::from_str(s) succeeds iff s is 4 bytes long and all letters,
\* with the bytes of s, and returns an error value in every other case.
FromStrResult ==
    op = "from_str" =>
        IF Len(arg) = 4 /\ \A i \in 1..4 : arg[i] \in (65..90) \cup (97..122)
        THEN chunk_type.tag = "ok" /\ chunk_type.bytes = arg
        ELSE chunk_type.tag = "err"

\* C9: is_critical, is_public and is_reserved_bit_valid hold iff bit 5 of
\* bytes 0, 1 and 2 is clear, is_safe_to_copy iff bit 5 of byte 3 is set, and
\* is_valid iff is_reserved_bit_valid.
BitFlags ==
    chunk_type.tag = "ok" =>
        LET b == chunk_type.bytes
        IN  /\ is_critical(chunk_type) <=> Bit5Clear(b[1])
            /\ is_public(chunk_type) <=> Bit5Clear(b[2])
            /\ is_reserved_bit_valid(chunk_type) <=> Bit5Clear(b[3])
            /\ is_safe_to_copy(chunk_type) <=> ~Bit5Clear(b[4])
            /\ is_valid(chunk_type) <=> Bit5Clear(b[3])

BitFlagsWitness ==
    /\ op = "from_str"
    /\ chunk_type.tag = "ok"
    /\ chunk_type.bytes = <<82, 117, 82, 117>>
    /\ is_critical(chunk_type)
    /\ ~is_public(chunk_type)
    /\ is_valid(chunk_type)
    /\ is_safe_to_copy(chunk_type)

\* C10: as_bytes() of the chunk parsed from an accepted buffer is that buffer,
\* laid out as length, type, data, crc in 12 + data length bytes; calling it
\* again returns the same bytes and changes no field of the chunk.
Reserialize ==
    /\ [](bytes_out.set =>
            /\ chunk.tag = "ok"
            /\ bytes_out.bytes = value
            /\ Len(bytes_out.bytes) = 12 + Len(chunk.data)
            /\ SubSeq(bytes_out.bytes, 1, 4) = <<0, 0, 0, Len(chunk.data)>>
            /\ SubSeq(bytes_out.bytes, 5, 8) = chunk.chunk_type.bytes
            /\ SubSeq(bytes_out.bytes, 9, 8 + Len(chunk.data)) = chunk.data
            /\ from_be_bytes(SubSeq(bytes_out.bytes, 9 + Len(chunk.data),
                                    12 + Len(chunk.data))) = chunk.crc)
    /\ [][op' = "as_bytes" =>
            /\ chunk' = chunk
            /\ (bytes_out.set => bytes_out' = bytes_out)]_vars

ReserializeWitness ==
    /\ op = "as_bytes"
    /\ calls = 2
    /\ base = <<>>
    /\ bytes_out.set
    /\ bytes_out.bytes = value
    /\ Len(chunk.data) >= 1

====
